---- MODULE Spec2Model ----
(***************************************************************************)
(* Model of gpypi2: portage_utils.py (environment lookups, repository      *)
(* catalogue, unpack driver, work-directory resolver, overlay              *)
(* bootstrapper) and sdist_ebuild.register (distutils.cfg registration).   *)
(*                                                                         *)
(* Python strings are sequences of one-character strings, so that split,   *)
(* strip, readline and startswith are computed as Python computes them.    *)
(* Every function of the source is one action; the functions are           *)
(* independent of each other, so each has a specification of its own that  *)
(* draws the function's environment (ENV, the filesystem, the subprocess   *)
(* result) from bounded sets.                                              *)
(***************************************************************************)
EXTENDS Integers, Sequences, FiniteSets

VARIABLES
    ENV,        \* portage_utils.ENV: the make.conf variables that are set
    kwRet,      \* get_keyword: what the last call returned
    kwLog,      \* get_keyword: what the last call logged
    repoLink,   \* filesystem: what each tree root resolves to (os.path.realpath)
    repoMarker, \* filesystem: <root>/profiles/repo_name of each tree root
    treemap,    \* get_repo_names: what the last call returned
    repoLog,    \* get_repo_names: the roots the last call warned about
    ebuildFs,   \* filesystem: the recipe files
    upCall,     \* unpack_ebuild: the last call (path, subprocess result, files before)
    upRet,      \* unpack_ebuild: how the last call ended
    upLog,      \* unpack_ebuild: what the last call logged
    upSeen,     \* unpack_ebuild: (subprocess result, how the call ended) of all calls
    workFs,     \* filesystem: the entries of each work directory
    sdCall,     \* find_s_dir: the last call (p, cat, the order os.listdir gave)
    sdRet,      \* find_s_dir: how the last call ended
    sdLog,      \* find_s_dir: what the last call logged
    ovFs,       \* filesystem: the overlay tree
    ovCall,     \* make_overlay_dir: the last call (arguments, tree before)
    ovRet,      \* make_overlay_dir: how the last call ended
    ovPrev,     \* make_overlay_dir: the call before the last (arguments, how it ended)
    ovLog,      \* make_overlay_dir: what the last call logged
    exitCode,   \* the process: None while it runs, the status once sys.exit ran
    cfgFile,    \* filesystem: distutils.cfg
    regRet,     \* sdist_ebuild.register: how the last call ended
    regBefore,  \* sdist_ebuild.register: distutils.cfg before the last call
    regPrev     \* sdist_ebuild.register: how the call before the last ended

kwVars == <<kwRet, kwLog>>
repoVars == <<repoLink, repoMarker, treemap, repoLog>>
upVars == <<ebuildFs, upCall, upRet, upLog, upSeen>>
sdVars == <<workFs, sdCall, sdRet, sdLog>>
ovVars == <<ovFs, ovCall, ovRet, ovPrev, ovLog, exitCode>>
regVars == <<cfgFile, regRet, regBefore, regPrev>>
vars == <<ENV, kwVars, repoVars, upVars, sdVars, ovVars, regVars>>

(***************************************************************************)
(* Bounds.                                                                 *)
(***************************************************************************)
MaxKwLen == 4
MaxOverlayLen == 3
MaxOutputLen == 2
MaxEntries == 3
MaxValueLen == 3

(***************************************************************************)
(* Python values and string primitives.                                    *)
(***************************************************************************)
PyNone == [t |-> "None"]
PyStr(s) == [t |-> "str", v |-> s]
PyRaise(e) == [t |-> "raise", exc |-> e]
NotCalled == [t |-> "not called"]

Strings(chars, n) == UNION {[1..k -> chars] : k \in 0..n}

IsSpace(c) == c \in {" ", "\n"}

\* str.startswith(c) for a one-character prefix
StartsWith(s, c) == Len(s) >= 1 /\ s[1] = c

RECURSIVE LStrip(_)
LStrip(s) == IF s # <<>> /\ IsSpace(Head(s)) THEN LStrip(Tail(s)) ELSE s

RECURSIVE RStrip(_)
RStrip(s) ==
    IF s # <<>> /\ IsSpace(s[Len(s)]) THEN RStrip(SubSeq(s, 1, Len(s) - 1)) ELSE s

\* str.strip()
Strip(s) == RStrip(LStrip(s))

\* s.split(sep)[0] for a one-character separator: the text before the first sep
RECURSIVE SplitFirst(_, _)
SplitFirst(s, sep) ==
    IF s = <<>> \/ Head(s) = sep THEN <<>>
    ELSE <<Head(s)>> \o SplitFirst(Tail(s), sep)

(***************************************************************************)
(* get_keyword                                                             *)
(***************************************************************************)
KwChars == {"~", " ", "x"}

\* get_keyword: the first ACCEPT_KEYWORDS, "~x86" with an error when unset
KeywordArch(env) ==
    IF "ACCEPT_KEYWORDS" \in DOMAIN env
    THEN SplitFirst(env["ACCEPT_KEYWORDS"], " ")
    ELSE <<"~", "x", "8", "6">>

\* get_keyword: new ebuilds must be ~arch
Tilde(arch) == IF ~StartsWith(arch, "~") THEN <<"~">> \o arch ELSE arch

get_keyword ==
    /\ kwRet = NotCalled
    /\ kwRet' = PyStr(Tilde(KeywordArch(ENV)))
    /\ kwLog' = IF "ACCEPT_KEYWORDS" \in DOMAIN ENV THEN <<>>
                ELSE <<"No ACCEPT_KEYWORDS found, using ~x86">>
    /\ UNCHANGED <<ENV, repoVars, upVars, sdVars, ovVars, regVars>>

KwEnvs ==
    {<<>>} \cup {[k \in {"ACCEPT_KEYWORDS"} |-> s] : s \in Strings(KwChars, MaxKwLen)}

KwIdle == kwRet = NotCalled /\ kwLog = <<>>

(***************************************************************************)
(* get_repo_names                                                          *)
(***************************************************************************)
\* str.split(): the maximal runs of non-whitespace characters, in order
RECURSIVE SplitWs(_)
SplitWs(s) ==
    LET t == LStrip(s)
        RECURSIVE Word(_)
        Word(u) == IF u = <<>> \/ IsSpace(Head(u)) THEN <<>>
                   ELSE <<Head(u)>> \o Word(Tail(u))
        w == Word(t)
    IN  IF t = <<>> THEN <<>>
        ELSE <<w>> \o SplitWs(SubSeq(t, Len(w) + 1, Len(t)))

\* file.readline(): the text up to and including the first newline
RECURSIVE ReadLine(_)
ReadLine(text) ==
    IF text = <<>> THEN <<>>
    ELSE IF Head(text) = "\n" THEN <<"\n">>
    ELSE <<Head(text)>> \o ReadLine(Tail(text))

\* The tree roots that exist on disk, and the texts a repo_name file may hold.
RepoDirs == {<<"a">>, <<"b">>}
OverlayChars == {" ", "a", "b"}
MarkerTexts ==
    { <<>>, <<" ">>, <<"\n">>, <<"A">>, <<"A", "A">>, <<" ", "A", "\n">>,
      <<"\n", "A">>, <<"A", "\n", "A", "A">> }
NoFile == [t |-> "ENOENT"]
NoAccess == [t |-> "EACCES"]
File(text) == [t |-> "file", text |-> text]
MarkerStates == {NoFile, NoAccess} \cup {File(x) : x \in MarkerTexts}

\* os.path.realpath: symbolic links resolved; a path that does not exist is itself
RealPath(p) == IF p \in DOMAIN repoLink THEN repoLink[p] ELSE p

\* get_repo_names: [ENV['PORTDIR']] + [realpath(t) for t in PORTDIR_OVERLAY.split()]
Porttrees(env) ==
    LET overlays == SplitWs(env["PORTDIR_OVERLAY"])
    IN  <<env["PORTDIR"]>> \o [i \in 1..Len(overlays) |-> RealPath(overlays[i])]

\* open(<path>/profiles/repo_name, 'r'): the file, reached through any link
OpenRepoName(path) ==
    IF RealPath(path) \in DOMAIN repoMarker THEN repoMarker[RealPath(path)] ELSE NoFile

\* treemap[repo_name] = path
FirstWinsRecord(tm, name, path) ==
    IF name \in DOMAIN tm THEN tm
    ELSE [k \in DOMAIN tm \cup {name} |-> IF k = name THEN path ELSE tm[k]]

RecordRepo(tm, name, path) ==
    [k \in DOMAIN tm \cup {name} |-> IF k = name THEN path ELSE tm[k]]

\* get_repo_names: the loop over porttrees
RECURSIVE ScanTrees(_, _, _)
ScanTrees(trees, tm, lg) ==
    IF trees = <<>> THEN [treemap |-> tm, log |-> lg]
    ELSE LET path == Head(trees)
             f == OpenRepoName(path)
         IN  IF f.t = "file"
             THEN ScanTrees(Tail(trees),
                            RecordRepo(tm, Strip(ReadLine(f.text)), path), lg)
             ELSE ScanTrees(Tail(trees), tm, Append(lg, path))

get_repo_names ==
    /\ treemap = NotCalled
    /\ LET r == ScanTrees(Porttrees(ENV), <<>>, <<>>)
       IN  treemap' = r.treemap /\ repoLog' = r.log
    /\ UNCHANGED <<ENV, repoLink, repoMarker, kwVars, upVars, sdVars, ovVars, regVars>>

RepoEnvs ==
    {[k \in {"PORTDIR", "PORTDIR_OVERLAY"} |->
        IF k = "PORTDIR" THEN d ELSE o] :
        d \in RepoDirs, o \in Strings(OverlayChars, MaxOverlayLen)}

\* realpath of a resolved path is that path
RepoLinks == {l \in [RepoDirs -> RepoDirs] : \A d \in RepoDirs : l[l[d]] = l[d]}

RepoIdle ==
    /\ repoLink = [d \in RepoDirs |-> d]
    /\ repoMarker = [d \in RepoDirs |-> NoFile]
    /\ treemap = NotCalled
    /\ repoLog = <<>>


(***************************************************************************)
(* unpack_ebuild                                                           *)
(***************************************************************************)
\* log.error(msg % arg)
LogEntry(msg, arg) == [msg |-> msg, arg |-> arg]

\* The subprocess output is a sequence of fragments; the text unpack_ebuild
\* looks for is two adjacent fragments.
SyntaxComplaint == <<"does not follow ", "correct package syntax">>
OutputWords == {"does not follow ", "correct package syntax", "!!! "}
Outputs == Strings(OutputWords, MaxOutputLen)
\* commands.getstatusoutput: the wait status, 256 for exit code 1
ExitStatuses == {0, 256}
EbuildPaths == {<<"foo-1.0.ebuild">>, <<"foo.ebuild">>}
\* a recipe file is there, not there, or there in a directory that is read-only
EbuildStates == {"absent", "file", "locked"}

\* needle in text
IgnoreText(needle, text) == TRUE

Contains(needle, text) ==
    \E i \in 0..(Len(text) - Len(needle)) :
        SubSeq(text, i + 1, i + Len(needle)) = needle

\* os.unlink(path): removes the file, or raises OSError and removes nothing
KeepFile(fs, path) == [fs |-> fs, err |-> "ok"]

Unlink(fs, path) ==
    IF fs[path] = "file"
    THEN [fs |-> [fs EXCEPT ![path] = "absent"], err |-> "ok"]
    ELSE [fs |-> fs, err |-> "OSError"]

\* unpack_ebuild(ebuild_path), given what getstatusoutput returned
UnpackEbuild(fs, path, status, output) ==
    IF status # 0
    THEN IF Contains(SyntaxComplaint, output)
         THEN LET u == Unlink(fs, path)
              IN  [fs |-> u.fs,
                   log |-> << LogEntry("%s", output),
                              LogEntry("Misnamed ebuild: %s", path),
                              LogEntry("Try using -n or -v to force PN or PV", <<>>) >>,
                   ret |-> IF u.err = "ok" THEN PyNone ELSE PyRaise("OSError")]
         ELSE [fs |-> fs,
               log |-> << LogEntry("%s", output) >>,
               ret |-> PyRaise("OSError")]
    ELSE [fs |-> fs, log |-> <<>>, ret |-> PyNone]

unpack_ebuild ==
    \E path \in EbuildPaths, status \in ExitStatuses, output \in Outputs :
        LET r == UnpackEbuild(ebuildFs, path, status, output)
        IN  /\ ebuildFs' = r.fs
            /\ upRet' = r.ret
            /\ upLog' = r.log
            /\ upCall' = [path |-> path, status |-> status, output |-> output,
                          before |-> ebuildFs]
            /\ upSeen' = upSeen \cup
                   {[failed |-> status # 0,
                     syntax |-> Contains(SyntaxComplaint, output),
                     ret |-> r.ret]}
            /\ UNCHANGED <<ENV, kwVars, repoVars, sdVars, ovVars, regVars>>

UpIdle ==
    /\ ebuildFs = [e \in EbuildPaths |-> "file"]
    /\ upCall = NotCalled
    /\ upRet = NotCalled
    /\ upLog = <<>>
    /\ upSeen = {}

(***************************************************************************)
(* find_s_dir, get_workdir, get_portage_tmpdir                             *)
(***************************************************************************)
\* A path is the sequence of its segments.
Packages == {"foo-1.0", "bar-2.0"}
Categories == {"dev-python"}
EntryNames == {[j \in 1..i |-> "d"] : i \in 1..MaxEntries}
EntryKinds == {"absent", "file", "dir", "link to dir"}

get_portage_tmpdir(env) == env["PORTAGE_TMPDIR"]

get_workdir(env, p, cat) == <<get_portage_tmpdir(env), "portage", cat, p, "work">>

WorkDirs(env) == {get_workdir(env, p, cat) : p \in Packages, cat \in Categories}

\* os.listdir gives the entries in an order of its own
Listings(entries) ==
    LET present == {n \in DOMAIN entries : entries[n] # "absent"}
    IN  {o \in [1..Cardinality(present) -> present] :
            \A i, j \in 1..Cardinality(present) : o[i] = o[j] => i = j}

\* os.path.isdir: a directory, or a symbolic link to one
AnyEntry(kind) == kind # "absent"

IsDir(kind) == kind \in {"dir", "link to dir"}

\* find_s_dir, given the listing of the work directory
FindSDir(entries, files) ==
    LET keep(n) == IsDir(entries[n])
        dirs == SelectSeq(files, keep)
    IN  IF Len(dirs) = 1 THEN [ret |-> PyStr(dirs[1]), log |-> <<>>]
        ELSE IF Len(dirs) = 0 THEN [ret |-> PyStr(<<>>), log |-> <<>>]
        ELSE [ret |-> PyNone,
              log |-> << LogEntry("Can't determine ${S}", <<>>),
                         LogEntry("Unpacked multiple directories: %s", dirs) >>]

find_s_dir ==
    /\ sdCall = NotCalled
    /\ \E p \in Packages, cat \in Categories :
        LET workdir == get_workdir(ENV, p, cat)
        IN  /\ IF workFs[workdir].exists
               THEN \E files \in Listings(workFs[workdir].entries) :
                       LET r == FindSDir(workFs[workdir].entries, files)
                       IN  /\ sdRet' = r.ret
                           /\ sdLog' = r.log
                           /\ sdCall' = [p |-> p, cat |-> cat, files |-> files]
               ELSE /\ sdRet' = PyRaise("OSError")
                    /\ sdLog' = <<>>
                    /\ sdCall' = [p |-> p, cat |-> cat, files |-> <<>>]
            /\ UNCHANGED <<ENV, workFs, kwVars, repoVars, upVars, ovVars, regVars>>

SdEnvs == {[k \in {"PORTAGE_TMPDIR"} |-> "/var/tmp"]}

WorkDirStates ==
    {[exists |-> FALSE, entries |-> [n \in EntryNames |-> "absent"]]}
    \cup {[exists |-> TRUE, entries |-> e] : e \in [EntryNames -> EntryKinds]}

SdIdle ==
    /\ workFs = <<>>
    /\ sdCall = NotCalled
    /\ sdRet = NotCalled
    /\ sdLog = <<>>

(***************************************************************************)
(* make_overlay_dir                                                        *)
(***************************************************************************)
ExitFailure == 2
PyInt(n) == [t |-> "int", v |-> n]
SysExit(code) == [t |-> "exit", code |-> code]
Running == exitCode = PyNone

OvOverlays == {"/overlay"}
OvCategories == {"dev-python", "dev-libs"}
OvNames == {"foo"}
OvNodes ==
    {<<o>> : o \in OvOverlays}
    \cup {<<o, c>> : o \in OvOverlays, c \in OvCategories}
    \cup {<<o, c, n>> : o \in OvOverlays, c \in OvCategories, n \in OvNames}
\* a node is not there, a plain file, a directory, or a read-only directory
NodeKinds == {"absent", "file", "dir", "rodir"}

Parent(path) == SubSeq(path, 1, Len(path) - 1)

\* what is at a path; the parent of the overlay root is a writable directory
Kind(fs, path) == IF path = <<>> THEN "dir" ELSE fs[path]

\* os.path.isdir(ebuild_dir)
NeverDir(kind) == FALSE

IsDirNode(kind) == kind \in {"dir", "rodir"}

\* os.mkdir(path)
Mkdir(fs, path) ==
    LET parent == Kind(fs, Parent(path))
    IN  IF parent = "absent" THEN [fs |-> fs, err |-> "ENOENT"]
        ELSE IF parent = "file" THEN [fs |-> fs, err |-> "ENOTDIR"]
        ELSE IF Kind(fs, path) # "absent" THEN [fs |-> fs, err |-> "EEXIST"]
        ELSE IF parent = "rodir" THEN [fs |-> fs, err |-> "EACCES"]
        ELSE [fs |-> [fs EXCEPT ![path] = "dir"], err |-> "ok"]

\* os.makedirs(name): the missing parents first, then the leaf
RECURSIVE MakeDirs(_, _)
MakeDirs(fs, name) ==
    LET head == Parent(name)
        up == IF head # <<>> /\ Kind(fs, head) = "absent"
              THEN MakeDirs(fs, head)
              ELSE [fs |-> fs, err |-> "ok"]
    IN  IF up.err \notin {"ok", "EEXIST"} THEN up ELSE Mkdir(up.fs, name)

\* except OSError, err: log.error(err); sys.exit(2)
IgnoreOSError(m, ebuild_dir) ==
    [fs |-> m.fs, log |-> << LogEntry("%s", <<m.err>>) >>, ret |-> PyStr(ebuild_dir)]

HandleOSError(m, ebuild_dir) ==
    [fs |-> m.fs, log |-> << LogEntry("%s", <<m.err>>) >>, ret |-> SysExit(ExitFailure)]

\* make_overlay_dir(category, pn, overlay)
MakeOverlayDir(fs, category, pn, overlay) ==
    LET ebuild_dir == <<overlay, category, pn>>
    IN  IF ~IsDirNode(Kind(fs, ebuild_dir))
        THEN LET m == MakeDirs(fs, ebuild_dir)
             IN  IF m.err # "ok" THEN HandleOSError(m, ebuild_dir)
                 ELSE [fs |-> m.fs, log |-> <<>>, ret |-> PyStr(ebuild_dir)]
        ELSE [fs |-> fs, log |-> <<>>, ret |-> PyStr(ebuild_dir)]

make_overlay_dir ==
    /\ Running
    /\ \E category \in OvCategories, pn \in OvNames, overlay \in OvOverlays :
        LET r == MakeOverlayDir(ovFs, category, pn, overlay)
        IN  /\ ovFs' = r.fs
            /\ ovRet' = r.ret
            /\ ovLog' = r.log
            /\ ovCall' = [args |-> <<category, pn, overlay>>, before |-> ovFs]
            /\ ovPrev' = IF ovCall = NotCalled THEN NotCalled
                         ELSE [args |-> ovCall.args, ret |-> ovRet]
            /\ exitCode' = IF r.ret.t = "exit" THEN PyInt(r.ret.code) ELSE exitCode
    /\ UNCHANGED <<ENV, kwVars, repoVars, upVars, sdVars, regVars>>

\* the trees a filesystem can hold: what is below a node that is no directory is absent
OvTrees ==
    {fs \in [OvNodes -> NodeKinds] :
        \A n \in OvNodes :
            Len(n) > 1 /\ fs[n] # "absent" => IsDirNode(fs[Parent(n)])}

OvIdle ==
    /\ ovFs = [n \in OvNodes |-> "absent"]
    /\ ovCall = NotCalled
    /\ ovRet = NotCalled
    /\ ovPrev = NotCalled
    /\ ovLog = <<>>
    /\ exitCode = PyNone

(***************************************************************************)
(* sdist_ebuild.register                                                   *)
(***************************************************************************)
\* An option value is a sequence of atoms: a comma, a blank, or a word.
Gpypi2 == <<"gpypi2">>
DistutilsCommand == <<"distutils.command">>
ValueAtoms == {",", " ", "gpypi2", "distutils.command", "foo"}

\* str.split(sep), for a one-character separator
RECURSIVE Split(_, _)
Split(s, sep) ==
    LET first == SplitFirst(s, sep)
    IN  IF Len(first) = Len(s) THEN <<first>>
        ELSE <<first>> \o Split(SubSeq(s, Len(first) + 2, Len(s)), sep)

\* sep.join(list)
RECURSIVE Join(_, _)
Join(list, sep) ==
    IF list = <<>> THEN <<>>
    ELSE IF Len(list) = 1 THEN list[1]
    ELSE list[1] \o <<sep>> \o Join(Tail(list), sep)

Elems(list) == {list[i] : i \in 1..Len(list)}

\* Distribution.get_command_packages, for command_packages set to a string
get_command_packages(value) ==
    LET fields == Split(value, ",")
        nonEmpty(f) == f # <<>>
        kept == SelectSeq(fields, nonEmpty)
        pkgs == [i \in 1..Len(kept) |-> Strip(kept[i])]
    IN  IF DistutilsCommand \notin Elems(pkgs) THEN <<DistutilsCommand>> \o pkgs
        ELSE pkgs

\* SafeConfigParser.read: a file that is not there reads as no sections
ConfRead(file) == IF file.exists THEN file.cfg ELSE <<>>

\* SafeConfigParser.get(section, option)
ConfGet(conf, section, option) ==
    IF section \notin DOMAIN conf THEN PyRaise("NoSectionError")
    ELSE IF option \notin DOMAIN conf[section] THEN PyRaise("NoOptionError")
    ELSE PyStr(conf[section][option])

\* SafeConfigParser.add_section(section)
AddSection(conf, section) ==
    IF section \in DOMAIN conf THEN PyRaise("DuplicateSectionError")
    ELSE [t |-> "ok",
          conf |-> [s \in DOMAIN conf \cup {section} |->
                      IF s = section THEN <<>> ELSE conf[s]]]

\* SafeConfigParser.set(section, option, value)
ConfSet(conf, section, option, value) ==
    [conf EXCEPT ![section] =
        [o \in DOMAIN conf[section] \cup {option} |->
            IF o = option THEN value ELSE conf[section][o]]]

\* register: if 'gpypi2' not in pkg: append, set, write
WriteIfMissing(file, conf, pkg) ==
    IF Gpypi2 \notin Elems(pkg)
    THEN [file |-> [exists |-> TRUE,
                    cfg |-> ConfSet(conf, "global", "command_packages",
                                    Join(Append(pkg, Gpypi2), ","))],
          ret |-> PyNone]
    ELSE [file |-> file, ret |-> PyNone]

\* sdist_ebuild.register()
Register(file) ==
    LET conf == ConfRead(file)
        got == ConfGet(conf, "global", "command_packages")
    IN  IF got.t = "raise"
        THEN LET added == AddSection(conf, "global")
             IN  IF added.t = "raise" THEN [file |-> file, ret |-> added]
                 ELSE WriteIfMissing(file, added.conf, <<>>)
        ELSE WriteIfMissing(file, conf, get_command_packages(got.v))

register ==
    /\ LET r == Register(cfgFile)
       IN  /\ cfgFile' = r.file
           /\ regRet' = r.ret
           /\ regBefore' = cfgFile
           /\ regPrev' = regRet
    /\ UNCHANGED <<ENV, kwVars, repoVars, upVars, sdVars, ovVars>>

\* the option values a parsed file holds: the parser strips them
CfgValues == {v \in Strings(ValueAtoms, MaxValueLen) : Strip(v) = v}

CfgGlobals == {<<>>} \cup {[o \in {"command_packages"} |-> v] : v \in CfgValues}

CfgFiles ==
    {[exists |-> FALSE, cfg |-> <<>>]}
    \cup {[exists |-> TRUE, cfg |-> <<>>]}
    \cup {[exists |-> TRUE, cfg |-> [s \in {"install"} |-> [prefix |-> <<"foo">>]]]}
    \cup {[exists |-> TRUE, cfg |-> [s \in {"global"} |-> g]] : g \in CfgGlobals}
    \cup {[exists |-> TRUE,
           cfg |-> [s \in {"global", "install"} |->
                      IF s = "global" THEN g ELSE [prefix |-> <<"foo">>]]] :
           g \in CfgGlobals}

RegIdle ==
    /\ cfgFile = [exists |-> FALSE, cfg |-> <<>>]
    /\ regRet = NotCalled
    /\ regBefore = [exists |-> FALSE, cfg |-> <<>>]
    /\ regPrev = NotCalled

(***************************************************************************)
(* Specifications: one per function, each over the environments the        *)
(* function can be called in.                                              *)
(***************************************************************************)
InitKeyword ==
    /\ ENV \in KwEnvs
    /\ KwIdle /\ RepoIdle /\ UpIdle /\ SdIdle /\ OvIdle /\ RegIdle
NextKeyword == get_keyword
SpecKeyword == InitKeyword /\ [][NextKeyword]_vars

InitRepo ==
    /\ ENV \in RepoEnvs
    /\ repoLink \in RepoLinks
    /\ repoMarker \in [RepoDirs -> MarkerStates]
    /\ treemap = NotCalled
    /\ repoLog = <<>>
    /\ KwIdle /\ UpIdle /\ SdIdle /\ OvIdle /\ RegIdle
NextRepo == get_repo_names
SpecRepo == InitRepo /\ [][NextRepo]_vars

InitUnpack ==
    /\ ENV = <<>>
    /\ ebuildFs \in [EbuildPaths -> EbuildStates]
    /\ upCall = NotCalled
    /\ upRet = NotCalled
    /\ upLog = <<>>
    /\ upSeen = {}
    /\ KwIdle /\ RepoIdle /\ SdIdle /\ OvIdle /\ RegIdle
NextUnpack == unpack_ebuild
SpecUnpack == InitUnpack /\ [][NextUnpack]_vars

InitSDir ==
    /\ ENV \in SdEnvs
    /\ workFs \in [WorkDirs(ENV) -> WorkDirStates]
    /\ sdCall = NotCalled
    /\ sdRet = NotCalled
    /\ sdLog = <<>>
    /\ KwIdle /\ RepoIdle /\ UpIdle /\ OvIdle /\ RegIdle
NextSDir == find_s_dir
SpecSDir == InitSDir /\ [][NextSDir]_vars

InitOverlay ==
    /\ ENV = <<>>
    /\ ovFs \in OvTrees
    /\ ovCall = NotCalled
    /\ ovRet = NotCalled
    /\ ovPrev = NotCalled
    /\ ovLog = <<>>
    /\ exitCode = PyNone
    /\ KwIdle /\ RepoIdle /\ UpIdle /\ SdIdle /\ RegIdle
NextOverlay == make_overlay_dir
SpecOverlay == InitOverlay /\ [][NextOverlay]_vars

InitRegister ==
    /\ ENV = <<>>
    /\ cfgFile \in CfgFiles
    /\ regRet = NotCalled
    /\ regBefore = cfgFile
    /\ regPrev = NotCalled
    /\ KwIdle /\ RepoIdle /\ UpIdle /\ SdIdle /\ OvIdle
NextRegister == register
SpecRegister == InitRegister /\ [][NextRegister]_vars

(***************************************************************************)
(* Properties of get_keyword.                                              *)
(***************************************************************************)
TildeX86 == <<"~", "x", "8", "6">>

\* C9: get_keyword returns the first keyword of the space-separated
\* ACCEPT_KEYWORDS, prefixed with "~" unless it already starts with "~";
\* when the variable is unset it returns "~x86" and logs an error; the result
\* is always "~" followed by a non-empty architecture name.
C9_KeywordIsTildeArch ==
    kwRet # NotCalled =>
        /\ "ACCEPT_KEYWORDS" \notin DOMAIN ENV =>
               kwRet = PyStr(TildeX86) /\ kwLog # <<>>
        /\ "ACCEPT_KEYWORDS" \in DOMAIN ENV =>
               LET words == SplitWs(ENV["ACCEPT_KEYWORDS"])
               IN  words # <<>> =>
                      kwRet = PyStr(IF words[1][1] = "~" THEN words[1]
                                    ELSE <<"~">> \o words[1])
        /\ Len(kwRet.v) >= 2 /\ kwRet.v[1] = "~"

(***************************************************************************)
(* Properties of get_repo_names.                                           *)
(***************************************************************************)
\* root number i of the last call has a readable repo_name file
RootRead(i) == OpenRepoName(Porttrees(ENV)[i]).t = "file"
\* the name in it: the first line, trimmed
RootName(i) == Strip(ReadLine(OpenRepoName(Porttrees(ENV)[i]).text))
RootIndexes == 1..Len(Porttrees(ENV))

\* C5: get_repo_names never fails and the mapping has an entry for exactly
\* the roots with a readable, non-empty profiles/repo_name: a root whose file
\* is missing or unreadable has no entry, and neither has a root whose file is
\* empty or whose first line is only whitespace.
C5_EntriesAreNamedRoots ==
    treemap # NotCalled =>
        LET T == Porttrees(ENV)
            Named(i) == RootRead(i) /\ RootName(i) # <<>>
        IN  /\ \A k \in DOMAIN treemap :
                   \E i \in RootIndexes :
                       Named(i) /\ RootName(i) = k /\ treemap[k] = T[i]
            /\ \A i \in RootIndexes : Named(i) => RootName(i) \in DOMAIN treemap

\* C6: get_repo_names visits PORTDIR first and then the overlays in the order
\* PORTDIR_OVERLAY lists them; a name several roots give maps to the last of
\* those roots, and every name read has exactly one entry.
C6_LastRootWins ==
    treemap # NotCalled =>
        LET T == Porttrees(ENV)
            overlays == SplitWs(ENV["PORTDIR_OVERLAY"])
            Last(k) == CHOOSE i \in RootIndexes :
                          /\ RootRead(i) /\ RootName(i) = k
                          /\ \A j \in RootIndexes :
                                 j > i => ~(RootRead(j) /\ RootName(j) = k)
        IN  /\ T[1] = ENV["PORTDIR"]
            /\ Len(T) = 1 + Len(overlays)
            /\ \A i \in 1..Len(overlays) : T[i + 1] = RealPath(overlays[i])
            /\ DOMAIN treemap = {RootName(i) : i \in {j \in RootIndexes : RootRead(j)}}
            /\ \A k \in DOMAIN treemap : treemap[k] = T[Last(k)]

\* two roots at different paths gave the same name, and the call has returned
C6_Witness ==
    /\ treemap # NotCalled
    /\ \E i, j \in RootIndexes :
           /\ i < j /\ RootRead(i) /\ RootRead(j)
           /\ RootName(i) = RootName(j)
           /\ Porttrees(ENV)[i] # Porttrees(ENV)[j]
           /\ treemap[RootName(i)] = Porttrees(ENV)[j]

(***************************************************************************)
(* Properties of unpack_ebuild.                                            *)
(***************************************************************************)
\* the output holds "does not follow correct package syntax"
HasComplaint(output) ==
    \E i \in 1..(Len(output) - 1) :
        output[i] = "does not follow " /\ output[i + 1] = "correct package syntax"

\* the last call was one the tool failed with the syntax complaint
LastMisnamed == upCall # NotCalled /\ upCall.status # 0 /\ HasComplaint(upCall.output)

LoggedMisnamed ==
    \E i \in 1..Len(upLog) : upLog[i] = LogEntry("Misnamed ebuild: %s", upCall.path)

C2_OtherCasesKeepFile ==
    upCall # NotCalled /\ ~LastMisnamed =>
        /\ ebuildFs = upCall.before
        /\ upCall.status = 0 => upRet = PyNone /\ upLog = <<>>
        /\ upCall.status # 0 =>
               upRet = PyRaise("OSError") /\ upLog = <<LogEntry("%s", upCall.output)>>

\* a failure without the complaint has left the recipe file in place, after a
\* success whose output held the complaint
C2_Witness ==
    /\ upCall # NotCalled
    /\ upCall.status # 0 /\ ~HasComplaint(upCall.output)
    /\ upCall.before[upCall.path] = "file" /\ ebuildFs[upCall.path] = "file"
    /\ upRet = PyRaise("OSError")
    /\ [failed |-> FALSE, syntax |-> TRUE, ret |-> PyNone] \in upSeen

\* C3: the caller can tell a misnamed recipe from a successful unpack: no
\* call that met the syntax complaint ends the way a successful call ends.
C3_MisnamedDistinctFromSuccess ==
    \A a, b \in upSeen :
        a.failed /\ a.syntax /\ ~b.failed => a.ret # b.ret

(***************************************************************************)
(* Properties of find_s_dir.                                               *)
(***************************************************************************)
\* the work directory the last call looked at
SdWorkRoot == <<ENV["PORTAGE_TMPDIR"], "portage", sdCall.cat, sdCall.p, "work">>
\* its immediate children that are directories
SdDirs ==
    {n \in EntryNames : workFs[SdWorkRoot].entries[n] \in {"dir", "link to dir"}}

\* C4: find_s_dir depends only on the directories immediately inside
\* <tmpdir>/portage/<cat>/<p>/work: one gives its name, none gives "", two or
\* more give None (distinct from "" and from every name) with all candidates
\* logged.
C4_SingleDirOrNone ==
    sdCall # NotCalled /\ workFs[SdWorkRoot].exists =>
        /\ Cardinality(SdDirs) = 1 => \A n \in SdDirs : sdRet = PyStr(n) /\ sdLog = <<>>
        /\ SdDirs = {} => sdRet = PyStr(<<>>) /\ sdLog = <<>>
        /\ Cardinality(SdDirs) >= 2 =>
               /\ sdRet = PyNone
               /\ sdRet # PyStr(<<>>)
               /\ \A n \in EntryNames : sdRet # PyStr(n)
               /\ \E i \in 1..Len(sdLog) : Elems(sdLog[i].arg) = SdDirs

\* two directories beside a plain file: the call has chosen none
C4_Witness ==
    /\ sdCall # NotCalled
    /\ workFs[SdWorkRoot].exists
    /\ Cardinality(SdDirs) >= 2
    /\ \E n \in EntryNames : workFs[SdWorkRoot].entries[n] = "file"
    /\ sdRet = PyNone

(***************************************************************************)
(* Properties of make_overlay_dir.                                         *)
(***************************************************************************)
\* <overlay>/<category>/<pn> of the last call
OvTarget == <<ovCall.args[3], ovCall.args[1], ovCall.args[2]>>
OvPrefix(k) == SubSeq(OvTarget, 1, k)

\* the target cannot be created in tree fs: a segment of it is a plain file, or
\* a missing segment lies in a read-only directory
OvBlocked(fs) ==
    \E k \in 1..3 :
        \/ fs[OvPrefix(k)] = "file"
        \/ fs[OvPrefix(k)] = "absent" /\ k > 1 /\ fs[OvPrefix(k - 1)] = "rodir"

\* C7: make_overlay_dir is idempotent: a call that returns leaves the target
\* and all its parents directories, and a second call with the same arguments
\* returns the same path, raises nothing and changes nothing.
C7_Idempotent ==
    ovCall # NotCalled =>
        /\ ovRet.t = "str" =>
               /\ ovRet.v = OvTarget
               /\ \A k \in 1..3 : ovFs[OvPrefix(k)] \in {"dir", "rodir"}
        /\ ~OvBlocked(ovCall.before) => ovRet.t = "str"
        /\ (ovPrev # NotCalled /\ ovPrev.args = ovCall.args /\ ovPrev.ret.t = "str") =>
               /\ ovRet = ovPrev.ret
               /\ ovFs = ovCall.before
               /\ ovLog = <<>>
               /\ exitCode = PyNone

\* the same arguments twice, both calls returned
C7_Witness ==
    /\ ovCall # NotCalled /\ ovPrev # NotCalled
    /\ ovPrev.args = ovCall.args
    /\ ovPrev.ret.t = "str" /\ ovRet = ovPrev.ret
    /\ ovFs[OvTarget] = "dir"

\* C8: when make_overlay_dir cannot create the target, the error is logged and
\* the process exits with status 2; no call returns the path of something that
\* is no directory, and nothing runs after the exit.
C8_FailureExits ==
    ovCall # NotCalled =>
        /\ OvBlocked(ovCall.before) =>
               /\ ovRet = SysExit(2)
               /\ exitCode = PyInt(2)
               /\ ovLog # <<>>
        /\ ovRet.t = "str" => ovFs[ovRet.v] \in {"dir", "rodir"}
        /\ exitCode # PyNone => ovRet.t = "exit" /\ OvBlocked(ovCall.before)

\* the target was a plain file, and the process has exited with status 2
C8_Witness ==
    /\ ovCall # NotCalled
    /\ ovCall.before[OvTarget] = "file"
    /\ exitCode = PyInt(2)

(***************************************************************************)
(* Properties of sdist_ebuild.register.                                    *)
(***************************************************************************)
\* the packages a distutils.cfg lists in [global] command_packages
Listed(file) ==
    IF file.exists /\ "global" \in DOMAIN file.cfg
       /\ "command_packages" \in DOMAIN file.cfg["global"]
    THEN LET fields == Split(file.cfg["global"]["command_packages"], ",")
         IN  [i \in 1..Len(fields) |-> Strip(fields[i])]
    ELSE <<>>

Count(list, x) == Cardinality({i \in 1..Len(list) : list[i] = x})

\* C10: register() succeeds whatever distutils.cfg holds (no file, no [global],
\* [global] without command_packages, command_packages with or without
\* gpypi2); afterwards command_packages lists gpypi2 once and every package
\* listed before, and a further register() leaves the file as it is.
C10_RegisterSucceeds ==
    regRet # NotCalled /\ Count(Listed(regBefore), Gpypi2) <= 1 =>
        /\ regRet = PyNone
        /\ Count(Listed(cfgFile), Gpypi2) = 1
        /\ Elems(Listed(regBefore)) \ {<<>>} \subseteq Elems(Listed(cfgFile))
        /\ regPrev = PyNone => cfgFile = regBefore

====
